---------------------------- MODULE Spec2Model ----------------------------
(***************************************************************************)
(* Agent session orchestration of the AutoGLM-GUI backend (src/main.py).   *)
(*                                                                         *)
(* One process-wide slot `agent` holds None or one PhoneAgent.  Four HTTP  *)
(* handlers work on it: init_agent, chat, get_status and reset_agent.      *)
(* Every handler is an `async def` whose body contains no `await`: once    *)
(* the event loop starts it, it runs to its return (or raise) before any   *)
(* other handler runs.  The handlers are modelled statement by statement   *)
(* so that each read of the global is visible, and the event loop's        *)
(* run-to-completion rule is the guard CanRun.                             *)
(*                                                                         *)
(* PhoneAgent itself (AutoGL_GUI.phone_agent) is not part of src/; it is   *)
(* modelled from its contract: construction (may raise), run (advances the *)
(* step counter, returns text or raises), step_count, reset.               *)
(***************************************************************************)
EXTENDS Integers, Sequences, FiniteSets, TLC

\* ------------------------------------------------------------- bounds
\* PhoneAgent objects constructed during one behaviour.
MaxAgents == 2
\* Largest value an agent's step counter takes during one run.
MaxSteps == 2
\* Requests the server holds at one time (queued or running).
MaxReq == 2

\* ---------------------------------------------------------- constants
\* Python's None in the global slot; agent objects are 1..MaxAgents.
None == 0

AgentIds == 1..MaxAgents
Slots == 1..MaxReq
\* The requests of the API: InitRequest (its configuration constructs, or
\* a constructor raises on it), ChatRequest, and the two without a body.
Requests ==
    {[cmd |-> "init", valid |-> TRUE], [cmd |-> "init", valid |-> FALSE],
     [cmd |-> "chat", valid |-> FALSE], [cmd |-> "status", valid |-> FALSE],
     [cmd |-> "reset", valid |-> FALSE]}
\* What PhoneAgent.run returns, and the texts of what it raises.
Outputs == {"finished"}
Failures == {[type |-> "RuntimeError", text |-> "model unreachable"]}
NoException == [type |-> "", text |-> ""]

\* str(e): the text the exception was raised with.
Str(e) == e.text

VARIABLES
    agent,       \* the global singleton: None or an agent object
    step_count,  \* step_count[a]: PhoneAgent a's step counter
    constructed, \* number of PhoneAgent objects constructed so far
    pending,     \* requests received whose handler has not started
    req,         \* req[r]: the handler running in slot r and its position
    last,        \* the record of the request that completed most recently
    lint         \* the lint tool's run (scripts/lint.py), a process of its own

vars == <<agent, step_count, constructed, pending, req, last, lint>>

\* ------------------------------------------------- requests, responses
NoResponse == [status |-> 0]

\* What a handler notes of the command that completed before it started.
NoCommand ==
    [cmd |-> "none", status |-> 0, ok |-> FALSE, steps |-> 0,
     initialized |-> FALSE]

\* A slot record: the request (cmd, valid), the handler's position (pc),
\* its locals (obj, result, steps, initialized), its response (resp), and
\* history kept for the properties: the Agent operations it invoked with the
\* object each was invoked on (calls), the counter run left behind
\* (advanced) and what it raised (raised), the slot and its counter when the
\* handler started (pre_agent, pre_steps) and the command that had completed
\* last at that time (prev).
FreeSlot ==
    [cmd |-> "none", pc |-> "free", valid |-> FALSE,
     obj |-> None, result |-> "", steps |-> 0, initialized |-> FALSE,
     calls |-> <<>>, advanced |-> 0, raised |-> NoException,
     pre_agent |-> None, pre_steps |-> 0,
     prev |-> NoCommand, resp |-> NoResponse]

\* return {"success": True, "message": "Agent initialized"}
InitResponse ==
    [status |-> 200, success |-> TRUE, message |-> "Agent initialized"]

\* return {"success": True, "message": "Agent reset"}
ResetResponse ==
    [status |-> 200, success |-> TRUE, message |-> "Agent reset"]

ChatResponse(result, steps, success) ==
    [status |-> 200, result |-> result, steps |-> steps, success |-> success]

StatusResponse(initialized, count) ==
    [status |-> 200, initialized |-> initialized, step_count |-> count]

\* raise HTTPException(status_code=400, detail=...)
HTTPException ==
    [status |-> 400, detail |-> "Agent not initialized. Call /api/init first."]

\* An exception that leaves a handler uncaught: the server answers 500.
Unhandled(text) == [status |-> 500, detail |-> text]


\* --------------------------------------------------------- event loop
Running(r) == req[r].pc # "free"

\* A variant in which handlers are preempted between statements.
CanRunPreemptive(r) == TRUE

\* The handlers are coroutines without an await: the event loop runs the
\* one it has started to its end before it starts or resumes another.
CanRun(r) == \A q \in Slots \ {r} : ~Running(q)

Idle == \A r \in Slots : ~Running(r)

Summary(rec) ==
    [cmd |-> rec.cmd, status |-> rec.resp.status,
     ok |-> /\ rec.resp.status = 200
            /\ rec.cmd = "chat" => rec.resp.success,
     steps |-> IF rec.cmd = "chat" /\ rec.resp.status = 200
               THEN rec.resp.steps
               ELSE IF rec.cmd = "status" /\ rec.resp.status = 200
                    THEN rec.resp.step_count ELSE 0,
     initialized |-> /\ rec.cmd = "status" /\ rec.resp.status = 200
                     /\ rec.resp.initialized]

\* A variant that starts a waiting handler whenever a slot is free.
CanStartAnytime(r, q) ==
    /\ q \in pending
    /\ req[r].pc = "free"
    /\ \A s \in Slots : s < r => req[s].pc # "free"

\* The handler of a pending request q can start in slot r (the lowest free
\* one: which slot holds a handler means nothing).
CanStart(r, q) ==
    /\ q \in pending
    /\ req[r].pc = "free"
    /\ \A s \in Slots : s < r => req[s].pc # "free"
    /\ CanRun(r)

\* The handler of request q starts: the state it finds is noted.
Begin(q) ==
    [FreeSlot EXCEPT !.cmd = q.cmd, !.valid = q.valid,
                     !.pre_agent = agent,
                     !.pre_steps = IF agent = None THEN 0 ELSE step_count[agent],
                     !.prev = Summary(last)]

Called(rec, op, a) == [rec EXCEPT !.calls = Append(@, <<op, a>>)]

\* The handler in slot r ends with `response` (returned or raised): the
\* response is sent, the slot is free for the next request.
Complete(r, rec, response) ==
    /\ req' = [req EXCEPT ![r] = FreeSlot]
    /\ last' = [rec EXCEPT !.pc = "done", !.resp = response]
    /\ UNCHANGED lint

Goto(r, rec, label) ==
    /\ req' = [req EXCEPT ![r] = [rec EXCEPT !.pc = label]]
    /\ UNCHANGED <<last, lint>>

InFlight == Cardinality(pending) + Cardinality({r \in Slots : Running(r)})

\* ---------------------------------------------------------- transport
\* A request arrives and its handler is queued on the event loop.
Receive(q) ==
    /\ InFlight < MaxReq
    /\ q \notin pending
    /\ pending' = pending \cup {q}
    /\ UNCHANGED <<agent, step_count, constructed, req, last, lint>>

\* ---------------------------------------------------------- PhoneAgent
\* PhoneAgent(model_config, agent_config): a fresh object, counter at 0.
NewAgent == constructed + 1

\* agent.reset()
AgentReset(a) == [step_count EXCEPT ![a] = 0]

\* agent.run(message) leaves the counter at n, whether it returns or raises.
AgentRun(a, n) == [step_count EXCEPT ![a] = n]

\* --------------------------------------------------- POST /api/init
\* A variant that binds the global to the new object as construction starts.
InitConstructInstallsEarly(r) ==
    \E q \in Requests :
        /\ q.cmd = "init"
        /\ CanStart(r, q)
        /\ pending' = pending \ {q}
        /\ IF q.valid
           THEN /\ constructed < MaxAgents
                /\ constructed' = NewAgent
                /\ step_count' = [step_count EXCEPT ![NewAgent] = 0]
                /\ agent' = NewAgent
                /\ Goto(r, [Begin(q) EXCEPT !.obj = NewAgent], "assign")
           ELSE /\ Complete(r, Begin(q), Unhandled("ConfigurationError"))
                /\ UNCHANGED <<agent, step_count, constructed>>

\* A variant that empties the slot before it constructs the new agent.
InitConstructClearsFirst(r) ==
    \E q \in Requests :
        /\ q.cmd = "init"
        /\ CanStart(r, q)
        /\ pending' = pending \ {q}
        /\ agent' = None
        /\ IF q.valid
           THEN /\ constructed < MaxAgents
                /\ constructed' = NewAgent
                /\ step_count' = [step_count EXCEPT ![NewAgent] = 0]
                /\ Goto(r, [Begin(q) EXCEPT !.obj = NewAgent], "assign")
           ELSE /\ Complete(r, Begin(q), Unhandled("ConfigurationError"))
                /\ UNCHANGED <<step_count, constructed>>

\* A variant that keeps an agent that already exists instead of
\* constructing one for the new configuration.
InitConstructReuses(r) ==
    \E q \in Requests :
        /\ q.cmd = "init"
        /\ CanStart(r, q)
        /\ pending' = pending \ {q}
        /\ IF q.valid
           THEN IF agent # None
                THEN /\ Goto(r, [Begin(q) EXCEPT !.obj = agent], "assign")
                     /\ UNCHANGED <<step_count, constructed>>
                ELSE /\ constructed < MaxAgents
                     /\ constructed' = NewAgent
                     /\ step_count' = [step_count EXCEPT ![NewAgent] = 0]
                     /\ Goto(r, [Begin(q) EXCEPT !.obj = NewAgent], "assign")
           ELSE /\ Complete(r, Begin(q), Unhandled("ConfigurationError"))
                /\ UNCHANGED <<step_count, constructed>>
        /\ UNCHANGED agent

\* ModelConfig(...), AgentConfig(...), PhoneAgent(...): the right-hand side
\* of the assignment.  If a constructor raises, the handler ends there.
InitConstruct(r) ==
    \E q \in Requests :
        /\ q.cmd = "init"
        /\ CanStart(r, q)
        /\ pending' = pending \ {q}
        /\ IF q.valid
           THEN /\ constructed < MaxAgents
                /\ constructed' = NewAgent
                /\ step_count' = [step_count EXCEPT ![NewAgent] = 0]
                /\ Goto(r, [Begin(q) EXCEPT !.obj = NewAgent], "assign")
           ELSE /\ Complete(r, Begin(q), Unhandled("ConfigurationError"))
                /\ UNCHANGED <<step_count, constructed>>
        /\ UNCHANGED agent

\* A variant that installs the new agent only into an empty slot.
InitAssignKeepsOld(r) ==
    /\ req[r].pc = "assign"
    /\ CanRun(r)
    /\ agent' = IF agent = None THEN req[r].obj ELSE agent
    /\ Complete(r, req[r], InitResponse)
    /\ UNCHANGED <<step_count, constructed, pending>>

\* agent = <the constructed object>; return {"success": True, ...}
InitAssign(r) ==
    /\ req[r].pc = "assign"
    /\ CanRun(r)
    /\ agent' = req[r].obj
    /\ Complete(r, req[r], InitResponse)
    /\ UNCHANGED <<step_count, constructed, pending>>

\* --------------------------------------------------- POST /api/chat
\* A variant that answers an empty slot with a failed outcome, not an error.
ChatCheckDowngrades(r) ==
    LET q == [cmd |-> "chat", valid |-> FALSE] IN
    /\ CanStart(r, q)
    /\ pending' = pending \ {q}
    /\ IF agent = None
       THEN Complete(r, Begin(q),
                     ChatResponse("Agent not initialized", 0, FALSE))
       ELSE Goto(r, Begin(q), "run")
    /\ UNCHANGED <<agent, step_count, constructed>>

\* if agent is None: raise HTTPException(status_code=400, ...)
ChatCheck(r) ==
    LET q == [cmd |-> "chat", valid |-> FALSE] IN
    /\ CanStart(r, q)
    /\ pending' = pending \ {q}
    /\ IF agent = None
       THEN Complete(r, Begin(q), HTTPException)
       ELSE Goto(r, Begin(q), "run")
    /\ UNCHANGED <<agent, step_count, constructed>>

\* A variant without the try: what run raises leaves the handler.
ChatRunPropagates(r) ==
    /\ req[r].pc = "run"
    /\ CanRun(r)
    /\ \E n \in 0..MaxSteps :
          LET rec == [Called(req[r], "run", agent) EXCEPT !.advanced = n] IN
          /\ step_count' = AgentRun(agent, n)
          /\ \/ \E out \in Outputs :
                   Goto(r, [rec EXCEPT !.result = out], "steps")
             \/ \E e \in Failures :
                   Complete(r, [rec EXCEPT !.raised = e], Unhandled(Str(e)))
    /\ UNCHANGED <<agent, constructed, pending>>

\* A variant whose except branch reports the steps taken before the failure.
ChatRunPartialSteps(r) ==
    /\ req[r].pc = "run"
    /\ CanRun(r)
    /\ \E n \in 0..MaxSteps :
          LET rec == [Called(req[r], "run", agent) EXCEPT !.advanced = n] IN
          /\ step_count' = AgentRun(agent, n)
          /\ \/ \E out \in Outputs :
                   Goto(r, [rec EXCEPT !.result = out], "steps")
             \/ \E e \in Failures :
                   Complete(r, [rec EXCEPT !.raised = e],
                            ChatResponse(Str(e), n, FALSE))
    /\ UNCHANGED <<agent, constructed, pending>>

\* result = agent.run(request.message), inside try; what run raises is
\* caught: return ChatResponse(result=str(e), steps=0, success=False)
ChatRun(r) ==
    /\ req[r].pc = "run"
    /\ CanRun(r)
    /\ \E n \in 0..MaxSteps :
          LET rec == [Called(req[r], "run", agent) EXCEPT !.advanced = n] IN
          /\ step_count' = AgentRun(agent, n)
          /\ \/ \E out \in Outputs :
                   Goto(r, [rec EXCEPT !.result = out], "steps")
             \/ \E e \in Failures :
                   Complete(r, [rec EXCEPT !.raised = e],
                            ChatResponse(Str(e), 0, FALSE))
    /\ UNCHANGED <<agent, constructed, pending>>

\* A variant that resets the agent before it reads the counter.
ChatStepsAfterReset(r) ==
    /\ req[r].pc = "steps"
    /\ CanRun(r)
    /\ step_count' = AgentReset(agent)
    /\ Goto(r, [Called(req[r], "step_count", agent)
                   EXCEPT !.steps = 0], "reset")
    /\ UNCHANGED <<agent, constructed, pending>>

\* steps = agent.step_count
ChatSteps(r) ==
    /\ req[r].pc = "steps"
    /\ CanRun(r)
    /\ Goto(r, [Called(req[r], "step_count", agent)
                   EXCEPT !.steps = step_count[agent]], "reset")
    /\ UNCHANGED <<agent, step_count, constructed, pending>>

\* agent.reset(); return ChatResponse(result=result, steps=steps, success=True)
ChatReset(r) ==
    /\ req[r].pc = "reset"
    /\ CanRun(r)
    /\ step_count' = AgentReset(agent)
    /\ Complete(r, Called(req[r], "reset", agent),
                ChatResponse(req[r].result, req[r].steps, TRUE))
    /\ UNCHANGED <<agent, constructed, pending>>

\* --------------------------------------------------- GET /api/status
\* A variant with the test inverted: initialized=agent is None
StatusInitializedInverted(r) ==
    LET q == [cmd |-> "status", valid |-> FALSE] IN
    /\ CanStart(r, q)
    /\ pending' = pending \ {q}
    /\ Goto(r, [Begin(q) EXCEPT !.initialized = (agent = None)], "count")
    /\ UNCHANGED <<agent, step_count, constructed>>

\* initialized=agent is not None
StatusInitialized(r) ==
    LET q == [cmd |-> "status", valid |-> FALSE] IN
    /\ CanStart(r, q)
    /\ pending' = pending \ {q}
    /\ Goto(r, [Begin(q) EXCEPT !.initialized = (agent # None)], "count")
    /\ UNCHANGED <<agent, step_count, constructed>>

\* A variant that clears the counter it has read.
StatusCountClears(r) ==
    /\ req[r].pc = "count"
    /\ CanRun(r)
    /\ IF agent # None
       THEN /\ Complete(r, Called(req[r], "step_count", agent),
                        StatusResponse(req[r].initialized, step_count[agent]))
            /\ step_count' = AgentReset(agent)
       ELSE /\ Complete(r, req[r], StatusResponse(req[r].initialized, 0))
            /\ UNCHANGED step_count
    /\ UNCHANGED <<agent, constructed, pending>>

\* A variant that never reads the agent's counter.
StatusCountZero(r) ==
    /\ req[r].pc = "count"
    /\ CanRun(r)
    /\ Complete(r, req[r], StatusResponse(req[r].initialized, 0))
    /\ UNCHANGED <<agent, step_count, constructed, pending>>

\* step_count=agent.step_count if agent else 0; return StatusResponse(...)
StatusCount(r) ==
    /\ req[r].pc = "count"
    /\ CanRun(r)
    /\ IF agent # None
       THEN Complete(r, Called(req[r], "step_count", agent),
                     StatusResponse(req[r].initialized, step_count[agent]))
       ELSE Complete(r, req[r], StatusResponse(req[r].initialized, 0))
    /\ UNCHANGED <<agent, step_count, constructed, pending>>

\* --------------------------------------------------- POST /api/reset
\* A variant that refuses an empty slot the way chat does.
ResetCheckRequiresAgent(r) ==
    LET q == [cmd |-> "reset", valid |-> FALSE] IN
    /\ CanStart(r, q)
    /\ pending' = pending \ {q}
    /\ IF agent # None
       THEN Goto(r, Begin(q), "call")
       ELSE Complete(r, Begin(q), HTTPException)
    /\ UNCHANGED <<agent, step_count, constructed>>

\* if agent is not None:
ResetCheck(r) ==
    LET q == [cmd |-> "reset", valid |-> FALSE] IN
    /\ CanStart(r, q)
    /\ pending' = pending \ {q}
    /\ IF agent # None
       THEN Goto(r, Begin(q), "call")
       ELSE Complete(r, Begin(q), ResetResponse)
    /\ UNCHANGED <<agent, step_count, constructed>>

\* A variant that reports success without calling reset.
ResetCallSkips(r) ==
    /\ req[r].pc = "call"
    /\ CanRun(r)
    /\ Complete(r, req[r], ResetResponse)
    /\ UNCHANGED <<agent, step_count, constructed, pending>>

\* A variant that also empties the slot.
ResetCallClears(r) ==
    /\ req[r].pc = "call"
    /\ CanRun(r)
    /\ step_count' = AgentReset(agent)
    /\ agent' = None
    /\ Complete(r, Called(req[r], "reset", agent), ResetResponse)
    /\ UNCHANGED <<constructed, pending>>

\* agent.reset(); return {"success": True, "message": "Agent reset"}
ResetCall(r) ==
    /\ req[r].pc = "call"
    /\ CanRun(r)
    /\ step_count' = AgentReset(agent)
    /\ Complete(r, Called(req[r], "reset", agent), ResetResponse)
    /\ UNCHANGED <<agent, constructed, pending>>

\* ------------------------------------------------------ specification
\* The lint tool is not running.
LintOff ==
    [pc |-> "off", entry |-> "none", check_only |-> FALSE,
     frontend |-> FALSE, backend |-> FALSE, package_json |-> FALSE,
     pyproject |-> FALSE, fix |-> FALSE, results |-> <<>>,
     success |-> FALSE, exit |-> -1]

ServerStart ==
    /\ agent = None
    /\ step_count = [a \in AgentIds |-> 0]
    /\ constructed = 0
    /\ pending = {}
    /\ req = [r \in Slots |-> FreeSlot]
    /\ last = FreeSlot

Init == ServerStart /\ lint = LintOff

\* The four handlers, each a sequence of the statements above.
init_agent(r) == InitConstruct(r) \/ InitAssign(r)
chat(r) == ChatCheck(r) \/ ChatRun(r) \/ ChatSteps(r) \/ ChatReset(r)
get_status(r) == StatusInitialized(r) \/ StatusCount(r)
reset_agent(r) == ResetCheck(r) \/ ResetCall(r)

Next ==
    \/ \E q \in Requests : Receive(q)
    \/ \E r \in Slots :
        \/ init_agent(r)
        \/ chat(r)
        \/ get_status(r)
        \/ reset_agent(r)

Spec == Init /\ [][Next]_vars

\* ------------------------------------------- an agent whose methods raise
\* The contract names run as the operation that raises.  The handlers call
\* step_count and reset as well; what they do when those raise is described
\* by the statements below, which SpecRaising adds to Next.
AgentFaults == {[type |-> "AttributeError", text |-> "agent broken"]}

\* steps = agent.step_count raises inside the try of chat: the except
\* branch returns ChatResponse(result=str(e), steps=0, success=False)
ChatStepsRaises(r) ==
    /\ req[r].pc = "steps"
    /\ CanRun(r)
    /\ \E e \in AgentFaults :
          Complete(r, [Called(req[r], "step_count", agent) EXCEPT !.raised = e],
                   ChatResponse(Str(e), 0, FALSE))
    /\ UNCHANGED <<agent, step_count, constructed, pending>>

\* A variant whose try covers agent.run only.
ChatResetRaisesPropagates(r) ==
    /\ req[r].pc = "reset"
    /\ CanRun(r)
    /\ \E e \in AgentFaults, sc \in {step_count, AgentReset(agent)} :
          /\ step_count' = sc
          /\ Complete(r, [Called(req[r], "reset", agent) EXCEPT !.raised = e],
                      Unhandled(Str(e)))
    /\ UNCHANGED <<agent, constructed, pending>>

\* agent.reset() raises inside the try of chat, having cleared the counter
\* or not: the except branch returns the failed outcome.
ChatResetRaises(r) ==
    /\ req[r].pc = "reset"
    /\ CanRun(r)
    /\ \E e \in AgentFaults, sc \in {step_count, AgentReset(agent)} :
          /\ step_count' = sc
          /\ Complete(r, [Called(req[r], "reset", agent) EXCEPT !.raised = e],
                      ChatResponse(Str(e), 0, FALSE))
    /\ UNCHANGED <<agent, constructed, pending>>

\* agent.step_count raises in get_status, which has no try.
StatusCountRaises(r) ==
    /\ req[r].pc = "count"
    /\ CanRun(r)
    /\ agent # None
    /\ \E e \in AgentFaults :
          Complete(r, [Called(req[r], "step_count", agent) EXCEPT !.raised = e],
                   Unhandled(Str(e)))
    /\ UNCHANGED <<agent, step_count, constructed, pending>>

\* agent.reset() raises in reset_agent, which has no try.
ResetCallRaises(r) ==
    /\ req[r].pc = "call"
    /\ CanRun(r)
    /\ \E e \in AgentFaults, sc \in {step_count, AgentReset(agent)} :
          /\ step_count' = sc
          /\ Complete(r, [Called(req[r], "reset", agent) EXCEPT !.raised = e],
                      Unhandled(Str(e)))
    /\ UNCHANGED <<agent, constructed, pending>>

NextRaising ==
    \/ Next
    \/ \E r \in Slots :
        \/ ChatStepsRaises(r)
        \/ ChatResetRaises(r)
        \/ StatusCountRaises(r)
        \/ ResetCallRaises(r)

SpecRaising == Init /\ [][NextRaising]_vars

\* --------------------------------------------------- scripts/lint.py
\* How subprocess.run ends: return code 0, another return code,
\* TimeoutExpired, FileNotFoundError, another exception.
Outcomes == {"zero", "nonzero", "timeout", "notfound", "error"}

\* name = " ".join(cmd[:3]): the first three words of the command.
CommandName(cmd) == SubSeq(cmd, 1, IF Len(cmd) < 3 THEN Len(cmd) ELSE 3)

\* run_command: success=result.returncode == 0, False in each except branch.
run_command(check, cmd, outcome) ==
    [check |-> check, name |-> CommandName(cmd),
     success |-> (outcome = "zero"), skipped |-> FALSE]

\* LintResult(name=..., success=True, output="skipped: ...")
Skipped(check) ==
    [check |-> check, name |-> <<check>>, success |-> TRUE, skipped |-> TRUE]

\* all(r.success for r in all_results)
AllSucceeded(results) ==
    \A i \in 1..Len(results) : results[i].success

LintUnchanged ==
    UNCHANGED <<agent, step_count, constructed, pending, req, last>>

\* One check of lint_frontend or lint_backend: skipped when its project
\* file is missing, else its command is run; the result is appended and
\* the next check follows whatever the result.
RunCheck(check, exists, cmd, next) ==
    /\ \/ /\ ~exists
          /\ lint' = [lint EXCEPT !.results = Append(@, Skipped(check)),
                                   !.pc = next]
       \/ /\ exists
          /\ \E o \in Outcomes :
                lint' = [lint EXCEPT
                           !.results = Append(@, run_command(check, cmd, o)),
                           !.pc = next]
    /\ LintUnchanged

\* main: fix = not args.check_only; --frontend with --backend exits 1.
main_args ==
    /\ lint.pc = "main_args"
    /\ IF lint.frontend /\ lint.backend
       THEN lint' = [lint EXCEPT !.pc = "exited", !.exit = 1]
       ELSE lint' = [lint EXCEPT !.pc = "main_root",
                                 !.fix = ~lint.check_only]
    /\ LintUnchanged

\* main: without pyproject.toml in the root directory it exits 1.
main_root ==
    /\ lint.pc = "main_root"
    /\ IF lint.pyproject
       THEN lint' = [lint EXCEPT !.pc = "lint_all"]
       ELSE lint' = [lint EXCEPT !.pc = "exited", !.exit = 1]
    /\ LintUnchanged

\* lint_all: all_results = []; if frontend_only / elif backend_only / else
lint_all_begin ==
    /\ lint.pc = "lint_all"
    /\ lint' = [lint EXCEPT
                  !.results = <<>>,
                  !.pc = IF lint.frontend THEN "eslint"
                         ELSE IF lint.backend THEN "ruff" ELSE "eslint"]
    /\ LintUnchanged

\* A variant that leaves out the remaining checks when ESLint fails.
lint_frontend_eslint_stops ==
    /\ lint.pc = "eslint"
    /\ \/ /\ ~lint.package_json
          /\ lint' = [lint EXCEPT !.results = Append(@, Skipped("ESLint")),
                                   !.pc = "prettier"]
       \/ /\ lint.package_json
          /\ \E o \in Outcomes :
                lint' = [lint EXCEPT
                           !.results = Append(@, run_command("ESLint",
                                                   <<"pnpm", "lint">>, o)),
                           !.pc = IF o = "zero" THEN "prettier"
                                  ELSE "summary"]
    /\ LintUnchanged

lint_frontend_eslint ==
    /\ lint.pc = "eslint"
    /\ RunCheck("ESLint", lint.package_json,
                <<"pnpm", "lint">> \o (IF lint.fix THEN <<"--fix">> ELSE <<>>),
                "prettier")

\* lint_frontend passes check_only=True exactly when fix is false.
lint_frontend_format ==
    /\ lint.pc = "prettier"
    /\ RunCheck("Prettier", lint.package_json,
                <<"pnpm", IF ~lint.fix THEN "format:check" ELSE "format">>,
                "types")

\* After the front end, lint_all runs the back end unless frontend_only.
lint_frontend_types ==
    /\ lint.pc = "types"
    /\ RunCheck("TypeScript", lint.package_json,
                <<"pnpm", "type-check">>,
                IF lint.frontend THEN "summary" ELSE "ruff")

lint_backend_ruff ==
    /\ lint.pc = "ruff"
    /\ RunCheck("Ruff check", lint.pyproject,
                <<"uv", "run", "ruff", "check">>
                    \o (IF lint.fix THEN <<"--fix">> ELSE <<>>),
                "ruff_format")

lint_backend_format ==
    /\ lint.pc = "ruff_format"
    /\ RunCheck("Ruff format", lint.pyproject,
                <<"uv", "run", "ruff", "format">>
                    \o (IF ~lint.fix THEN <<"--check">> ELSE <<>>),
                "summary")

\* A variant that returns any(...) instead of all(...).
lint_all_return_any ==
    /\ lint.pc = "summary"
    /\ lint' = [lint EXCEPT
                  !.success = \E i \in 1..Len(lint.results) :
                                  lint.results[i].success,
                  !.pc = IF lint.entry = "main" THEN "main_exit"
                         ELSE "returned"]
    /\ LintUnchanged

\* lint_all: return all(r.success for r in all_results)
lint_all_return ==
    /\ lint.pc = "summary"
    /\ lint' = [lint EXCEPT
                  !.success = AllSucceeded(lint.results),
                  !.pc = IF lint.entry = "main" THEN "main_exit"
                         ELSE "returned"]
    /\ LintUnchanged

\* main: sys.exit(0 if success else 1)
main_exit ==
    /\ lint.pc = "main_exit"
    /\ lint' = [lint EXCEPT !.pc = "exited",
                            !.exit = IF lint.success THEN 0 ELSE 1]
    /\ LintUnchanged

\* The tool is started from the command line (main), or lint_all is called
\* on a linter object with its three arguments.
LintStarts ==
    {[LintOff EXCEPT !.pc = "main_args", !.entry = "main",
                     !.check_only = c, !.frontend = f, !.backend = b,
                     !.package_json = p, !.pyproject = y] :
        c, f, b, p, y \in BOOLEAN}
    \cup
    {[LintOff EXCEPT !.pc = "lint_all", !.entry = "lint_all",
                     !.fix = x, !.frontend = f, !.backend = b,
                     !.package_json = p, !.pyproject = y] :
        x, f, b, p, y \in BOOLEAN}

InitLint == ServerStart /\ lint \in LintStarts

NextLint ==
    \/ main_args
    \/ main_root
    \/ lint_all_begin
    \/ lint_frontend_eslint
    \/ lint_frontend_format
    \/ lint_frontend_types
    \/ lint_backend_ruff
    \/ lint_backend_format
    \/ lint_all_return
    \/ main_exit

SpecLint == InitLint /\ [][NextLint]_vars

\* ------------------------------------------------------------ properties
\* The records of all handlers: the one completed last and those running.
Records == {last} \cup {req[r] : r \in Slots}

Targets(rec) == {rec.calls[i][2] : i \in 1..Len(rec.calls)}

ChatDone == last.cmd = "chat" /\ last.pc = "done"
RunRaised == ChatDone /\ last.raised # NoException
RunReturned == ChatDone /\ last.calls # <<>> /\ last.raised = NoException

\* C1: a chat that finds the slot empty ends with the 400 "not initialized"
\* error, has invoked no Agent operation, and leaves the slot empty; no
\* agent has been constructed on its behalf.
C1_ChatOnEmptyRegistry ==
    (ChatDone /\ last.pre_agent = None) =>
        /\ last.resp = HTTPException
        /\ last.resp.status = 400
        /\ last.calls = <<>>
        /\ agent = None
        /\ Idle => constructed = 0

\* A chat was refused on an empty slot, after a reset and before any init.
C1_Witness ==
    /\ ChatDone /\ last.pre_agent = None
    /\ last.prev.cmd = "reset"
    /\ last.resp.status = 400
    /\ constructed = 0

\* C2: when agent.run raises, chat returns normally (status 200) the outcome
\* {result: the exception's text, steps: 0, success: false}, whatever the
\* agent's counter had reached.
C2_RunFailureDowngraded ==
    RunRaised =>
        /\ last.resp = ChatResponse(Str(last.raised), 0, FALSE)
        /\ last.resp.status = 200

\* A run raised after the agent had advanced as far as it can.
C2_Witness ==
    /\ RunRaised
    /\ last.advanced = MaxSteps
    /\ last.resp.steps = 0
    /\ last.resp.success = FALSE

\* C3: when agent.run returns, chat reports its output, success and the
\* counter as run left it; a status that comes next reports 0.
C3_RunSuccessOutcome ==
    /\ RunReturned =>
            last.resp = ChatResponse(last.result, last.advanced, TRUE)
    /\ (last.cmd = "status" /\ last.prev.cmd = "chat" /\ last.prev.ok) =>
            last.resp.step_count = 0

\* A status follows a chat that succeeded with a non-zero step count.
C3_Witness ==
    /\ last.cmd = "status"
    /\ last.prev.cmd = "chat" /\ last.prev.ok
    /\ last.prev.steps = MaxSteps
    /\ last.resp = StatusResponse(TRUE, 0)

\* C4: after every chat that reached agent.run (run returned or raised) the
\* agent's counter is 0, and a status that comes next reports 0.
C4_ResetAfterEveryRun ==
    /\ (Idle /\ ChatDone /\ last.calls # <<>>) => step_count[agent] = 0
    /\ (last.cmd = "status" /\ last.prev.cmd = "chat"
            /\ last.prev.status = 200) =>
            last.resp.step_count = 0

\* C5: an init whose construction raises ends with an error and leaves the
\* slot and the installed agent's counter as they were when it started; the
\* command that comes next finds that agent and calls no other.
C5_FailedInitKeepsRegistry ==
    /\ (Idle /\ last.cmd = "init" /\ ~last.valid) =>
            /\ last.resp.status = 500
            /\ agent = last.pre_agent
            /\ agent # None => step_count[agent] = last.pre_steps
    /\ (last.cmd \in {"chat", "status", "reset"}
            /\ last.prev.cmd = "init" /\ last.prev.status = 500) =>
            /\ last.pre_agent = agent
            /\ Targets(last) \subseteq {agent}

\* An init failed while an agent with a non-zero counter was installed.
C5_Witness ==
    /\ Idle /\ last.cmd = "init" /\ ~last.valid
    /\ last.resp.status = 500
    /\ agent # None /\ agent = last.pre_agent
    /\ last.pre_steps > 0

\* What holds of the slot and of the recorded calls in every state.
C6_CallsTargetInstalled ==
    /\ (last.cmd = "init" /\ last.resp.status = 200) =>
            /\ agent = last.obj
            /\ agent # last.pre_agent
    /\ (last.cmd \in {"chat", "status", "reset"}) =>
            Targets(last) \subseteq {agent}
    /\ \A r \in Slots : Targets(req[r]) \subseteq {agent}

\* No step changes the counter of an agent that is not the installed one.
C6_DiscardedUntouched ==
    [][\A a \in AgentIds : a # agent => step_count'[a] = step_count[a]]_vars

\* C6: a successful init installs the object it constructed, which is not
\* the one it found; from then on the handlers invoke Agent operations only
\* on the installed agent, and no step changes another agent's counter.
C6_OnlyCurrentSession == []C6_CallsTargetInstalled /\ C6_DiscardedUntouched

\* Session A was left with a non-zero counter and replaced by B; a chat has
\* since run, read and reset on B.
C6_Witness ==
    /\ constructed = 2 /\ agent = 2
    /\ step_count[1] > 0
    /\ last.cmd = "chat"
    /\ last.calls = <<<<"run", 2>>, <<"step_count", 2>>, <<"reset", 2>>>>

C8_StatusReflectsRegistry ==
    last.cmd = "status" =>
        last.resp = StatusResponse(last.pre_agent # None, last.pre_steps)

\* A status reported an installed agent with a non-zero counter.
C8_Witness ==
    /\ last.cmd = "status"
    /\ last.pre_agent # None
    /\ last.resp.initialized
    /\ last.resp.step_count = MaxSteps

\* C9: a status that comes right after a successful init answers
\* {initialized: true, step_count: 0}.
C9_StatusAfterInit ==
    (last.cmd = "status" /\ last.prev.cmd = "init" /\ last.prev.ok) =>
        last.resp = StatusResponse(TRUE, 0)

\* The init before the status replaced an agent whose counter was non-zero.
C9_Witness ==
    /\ last.cmd = "status" /\ last.prev.cmd = "init" /\ last.prev.ok
    /\ constructed = 2 /\ last.pre_agent = 2
    /\ step_count[1] > 0
    /\ last.resp = StatusResponse(TRUE, 0)

\* C10: a reset that finds the slot empty reports success, invokes no Agent
\* operation and leaves the slot empty and every counter at 0, also when it
\* is repeated.
C10_ResetOnEmptyRegistry ==
    (last.cmd = "reset" /\ last.pre_agent = None) =>
        /\ last.resp = ResetResponse
        /\ last.resp.success
        /\ last.calls = <<>>
        /\ agent = None
        /\ Idle => step_count = [a \in AgentIds |-> 0]

\* A second reset on the empty slot followed a first one.
C10_Witness ==
    /\ last.cmd = "reset" /\ last.pre_agent = None
    /\ last.prev.cmd = "reset" /\ last.prev.ok
    /\ last.resp = ResetResponse
    /\ agent = None

\* C11: a reset that finds an agent calls reset on that agent and nothing
\* else, reports success, and leaves the same object installed with its
\* counter at 0; a status that comes next reports initialized with 0 steps.
C11_ResetKeepsAgent ==
    /\ (last.cmd = "reset" /\ last.pre_agent # None) =>
            /\ last.resp = ResetResponse
            /\ last.calls = <<<<"reset", last.pre_agent>>>>
            /\ agent = last.pre_agent
            /\ Idle => step_count[agent] = 0
    /\ (last.cmd = "status" /\ last.prev.cmd = "reset"
            /\ last.pre_agent # None) =>
            last.resp = StatusResponse(TRUE, 0)

\* A reset cleared a non-zero counter of the installed agent.
C11_Witness ==
    /\ Idle /\ last.cmd = "reset"
    /\ last.pre_agent # None /\ last.pre_steps > 0
    /\ agent = last.pre_agent
    /\ step_count[agent] = 0

\* C12: status and reset always answer 200, and so does a chat that found an
\* agent; the only answers that are errors are the 400 of a chat on an
\* empty slot and the error of an init whose construction raised.
C12_OnlyTwoErrors ==
    last.pc = "done" =>
        /\ last.cmd \in {"status", "reset"} => last.resp.status = 200
        /\ (last.cmd = "chat" /\ last.pre_agent # None) =>
                last.resp.status = 200
        /\ last.resp.status # 200 =>
                \/ /\ last.cmd = "chat" /\ last.pre_agent = None
                   /\ last.resp = HTTPException
                \/ /\ last.cmd = "init" /\ ~last.valid
                   /\ last.resp = Unhandled("ConfigurationError")

\* A chat whose run raised answered 200 right after an init that failed.
C12_Witness ==
    /\ RunRaised /\ last.resp.status = 200
    /\ last.prev.cmd = "init" /\ last.prev.status = 500

\* C13: the slot is empty or holds an object whose construction has
\* completed; the object an init has constructed is not in the slot before
\* the assignment, and no handler calls an object that is not constructed.
C13_SlotHoldsConstructedAgent ==
    /\ agent \in {None} \cup (1..constructed)
    /\ \A r \in Slots :
          (req[r].cmd = "init" /\ req[r].pc = "assign") =>
              /\ req[r].obj \in 1..constructed
              /\ agent # req[r].obj
    /\ \A rec \in Records : Targets(rec) \subseteq 1..constructed

\* An init has constructed its object and not yet assigned it, while the
\* previous agent is installed and a chat is waiting.
C13_Witness ==
    \E r \in Slots :
        /\ req[r].cmd = "init" /\ req[r].pc = "assign"
        /\ agent # None /\ agent # req[r].obj
        /\ [cmd |-> "chat", valid |-> FALSE] \in pending

\* No step empties a populated slot.
C14_NeverEmptied == [][agent # None => agent' # None]_vars

\* A status completed while the slot is populated reported initialized.
C14_StatusInitialized ==
    (agent # None /\ last.cmd = "status") => last.resp.initialized

\* C14: once the slot is populated no command empties it, and every status
\* from then on reports initialized = true.
C14_StaysInitialized == C14_NeverEmptied /\ []C14_StatusInitialized

\* A status after a failed init still reported initialized.
C14_Witness ==
    /\ agent # None /\ last.cmd = "status"
    /\ last.resp.initialized
    /\ last.prev.cmd = "init" /\ last.prev.status = 500

\* A status that follows a status returns the same snapshot.
C15_SameSnapshot ==
    (last.cmd = "status" /\ last.prev.cmd = "status") =>
        /\ last.resp.initialized = last.prev.initialized
        /\ last.resp.step_count = last.prev.steps

\* No statement of get_status changes the slot or a counter.
C15_ReadOnly ==
    [][(\E r \in Slots : get_status(r)) =>
            (agent' = agent /\ step_count' = step_count
                /\ constructed' = constructed)]_vars

\* C15: get_status changes neither the slot nor any counter, and a status
\* that follows a status with no command in between returns the same
\* snapshot.
C15_StatusRepeatable == C15_ReadOnly /\ []C15_SameSnapshot

\* Two statuses in a row reported an installed agent with non-zero steps.
C15_Witness ==
    /\ last.cmd = "status" /\ last.prev.cmd = "status"
    /\ last.resp.initialized /\ last.prev.initialized
    /\ last.resp.step_count > 0
    /\ last.prev.steps = last.resp.step_count

\* A chat that has called run and has not returned.
MidChat(r) == req[r].cmd = "chat" /\ req[r].pc \in {"steps", "reset"}

\* C16 as stated: commands are not serialized, that is, while a chat is
\* between its call to run and its return, a waiting init, reset or chat
\* can start.
C16_NotSerialized ==
    \A r \in Slots :
        MidChat(r) =>
            \A q \in pending :
                q.cmd \in {"init", "reset", "chat"} =>
                    \E s \in Slots : CanStart(s, q)

\* C16 as amended: while a chat is between its call to run and its return
\* no other handler runs, and the slot and the agent's counter are as that
\* chat left them: commands received meanwhile wait.
C16_ChatRunsAlone ==
    \A r \in Slots :
        MidChat(r) =>
            /\ \A s \in Slots \ {r} : ~Running(s)
            /\ agent = req[r].pre_agent
            /\ step_count[agent] = req[r].advanced

\* A reset waits while a chat that left a non-zero counter is about to
\* call reset itself.
C16_Witness ==
    \E r \in Slots :
        /\ req[r].cmd = "chat" /\ req[r].pc = "reset"
        /\ req[r].advanced > 0
        /\ [cmd |-> "reset", valid |-> FALSE] \in pending

\* C17: both reads of get_status observe the same slot: between them the
\* flag already computed agrees with the slot, and the completed snapshot
\* has initialized = (the slot it found was populated), reads the counter
\* of that agent only, and never pairs initialized = false with steps.
C17_ConsistentSnapshot ==
    /\ \A r \in Slots :
          (req[r].cmd = "status" /\ req[r].pc = "count") =>
              /\ req[r].initialized = (agent # None)
              /\ agent = req[r].pre_agent
    /\ last.cmd = "status" =>
          /\ last.resp.initialized = (last.pre_agent # None)
          /\ Targets(last) \subseteq {last.pre_agent}
          /\ last.resp.initialized => Targets(last) = {last.pre_agent}
          /\ ~last.resp.initialized => last.resp.step_count = 0

\* A status is between its two reads of an empty slot while an init that
\* will populate it is waiting.
C17_Witness ==
    \E r \in Slots :
        /\ req[r].cmd = "status" /\ req[r].pc = "count"
        /\ ~req[r].initialized
        /\ [cmd |-> "init", valid |-> TRUE] \in pending

\* C18: a chat that reached run answers 200; it reports success exactly
\* when run, the counter read and reset all completed, with run's output
\* and the counter read; when any of the three raised it reports the text
\* of what was raised, 0 steps and success = false.
C18_SuccessNeedsAllThree ==
    (ChatDone /\ last.calls # <<>>) =>
        /\ last.resp.status = 200
        /\ last.resp.success = (last.raised = NoException)
        /\ last.resp.success =>
              /\ Len(last.calls) = 3
              /\ last.resp = ChatResponse(last.result, last.advanced, TRUE)
        /\ last.raised # NoException =>
              last.resp = ChatResponse(Str(last.raised), 0, FALSE)

\* run returned with a non-zero counter, the counter was read, then reset
\* raised: the outcome carries the error's text, not run's output.
C18_Witness ==
    /\ ChatDone /\ Len(last.calls) = 3
    /\ last.result \in Outputs /\ last.steps > 0
    /\ last.raised \in AgentFaults
    /\ last.resp = ChatResponse(Str(last.raised), 0, FALSE)
    /\ last.resp.result # last.result

\* The checks lint_all is asked for, in their order.
FrontendChecks == <<"ESLint", "Prettier", "TypeScript">>
BackendChecks == <<"Ruff check", "Ruff format">>
SelectedChecks ==
    IF lint.frontend THEN FrontendChecks
    ELSE IF lint.backend THEN BackendChecks
    ELSE FrontendChecks \o BackendChecks

ChecksRun == [i \in 1..Len(lint.results) |-> lint.results[i].check]

\* C19: lint_all runs the selected checks in the order ESLint, Prettier,
\* type check, Ruff check, Ruff format, all of them whatever fails; a
\* skipped check counts as succeeded; it returns true exactly when every
\* result succeeded, and main exits 0 exactly then and 1 otherwise.
C19_LintAllRunsEveryCheck ==
    /\ lint.pc \in {"main_exit", "returned", "exited"} /\ lint.exit # 1 =>
          /\ ChecksRun = SelectedChecks
          /\ lint.success = AllSucceeded(lint.results)
    /\ \A i \in 1..Len(lint.results) :
          /\ i <= Len(SelectedChecks) /\ ChecksRun[i] = SelectedChecks[i]
          /\ lint.results[i].skipped => lint.results[i].success
    /\ lint.pc = "exited" =>
          /\ lint.exit \in {0, 1}
          /\ lint.exit = 0 <=>
                (ChecksRun = SelectedChecks /\ AllSucceeded(lint.results))

\* All five checks ran although the first one failed; the last succeeded
\* and main exited 1.
C19_Witness ==
    /\ lint.pc = "exited" /\ lint.exit = 1
    /\ Len(lint.results) = 5
    /\ ~lint.results[1].success
    /\ lint.results[5].success /\ ~lint.results[5].skipped

=============================================================================
